---- MODULE Spec2Model ----
(***************************************************************************)
(* Model of the icon-preview extension (src/src/extension.ts): the         *)
(* debounced regeneration of the icon theme descriptor.                    *)
(*                                                                         *)
(* Strings the code computes with (paths, identifiers, file names) are     *)
(* tuples of one-character strings, so that generateIconId, path.basename  *)
(* and path.extname are computed character by character as the code does. *)
(* JavaScript objects are ordered maps: a sequence of <<key, value>> pairs *)
(* in insertion order, which is the order JSON.stringify writes them in.   *)
(***************************************************************************)
EXTENDS Integers, Sequences, FiniteSets, TLC

\* ------------------------------------------------------------------ bounds
\* how many environment events (file events, configuration changes,
\* workspace-folder changes) happen in one run
MaxEvents == 1
\* how many times the user runs the manual refresh command in one run
MaxRefresh == 1
\* how many environment events happen in one run of the debounce scenario
MaxBurstEvents == 2
\* how many files the workspace holds at once in the debounce scenario
MaxBurstFiles == 1
\* how many files the workspace holds at once
MaxFiles == 2
\* the granularity of the clock, in ms
TimeStep == 250
\* how many input/output operations fail in one run (a mkdir, a findFiles,
\* an open or a write of the descriptor, a default icon, a config.update)
MaxFaults == 1
\* how many calls the debounce timer makes in one run of the scenario in
\* which the artifacts are files of the workspace
MaxInsideTimerCalls == 1

\* ------------------------------------------------------- program constants
\* setTimeout(..., 500)
DebounceMs == 500
\* config.get<number>('iconSize', 16)
DefaultIconSize == 16
\* the range the documentation gives for the iconSize setting
MinIconSize == 8
MaxIconSize == 32

\* ------------------------------------------------------------------ strings
Letters == {"a","b","c","d","e","f","g","h","i","j","k","l","m",
            "n","o","p","q","r","s","t","u","v","w","x","y","z"}
Capitals == {"A","B","C","D","E","F","G","H","I","J","K","L","M",
             "N","O","P","Q","R","S","T","U","V","W","X","Y","Z"}
Digits == {"0","1","2","3","4","5","6","7","8","9"}

\* the character class [a-zA-Z0-9] of the regular expression
IsAlnum(c) == c \in Letters \cup Capitals \cup Digits

UpperSeq == <<"A","B","C","D","E","F","G","H","I","J","K","L","M",
              "N","O","P","Q","R","S","T","U","V","W","X","Y","Z">>
LowerSeq == <<"a","b","c","d","e","f","g","h","i","j","k","l","m",
              "n","o","p","q","r","s","t","u","v","w","x","y","z">>

\* String.prototype.toLowerCase on one character, and on a string
LowerChar(c) ==
    IF c \in Capitals
    THEN LowerSeq[CHOOSE i \in 1..26 : UpperSeq[i] = c]
    ELSE c
toLowerCase(s) == [i \in 1..Len(s) |-> LowerChar(s[i])]

\* the last index of character c in s, 0 when there is none
LastIndexOf(s, c) ==
    IF \E i \in 1..Len(s) : s[i] = c
    THEN CHOOSE i \in 1..Len(s) : s[i] = c /\ \A j \in (i+1)..Len(s) : s[j] # c
    ELSE 0

\* path.basename(filePath): what follows the last separator
basename(filePath) ==
    SubSeq(filePath, LastIndexOf(filePath, "/") + 1, Len(filePath))

\* path.extname(filePath): from the last "." of the base name to its end,
\* empty when there is no "." or the base name starts with its only "."
extname(filePath) ==
    LET b == basename(filePath)
        d == LastIndexOf(b, ".")
    IN  IF d <= 1 THEN <<>> ELSE SubSeq(b, d, Len(b))

\* path.extname(filePath).toLowerCase().slice(1)
ExtOf(filePath) ==
    LET e == toLowerCase(extname(filePath))
    IN  IF e = <<>> THEN <<>> ELSE SubSeq(e, 2, Len(e))

\* filePath.replace(/[^a-zA-Z0-9]/g, '_')
Normalize(filePath) ==
    [i \in 1..Len(filePath) |-> IF IsAlnum(filePath[i]) THEN filePath[i] ELSE "_"]

\* generateIconId(filePath): `img_${normalized}`
generateIconId(filePath) == <<"i","m","g","_">> \o Normalize(filePath)

\* `${iconId}.png`, the artifact's file name inside outputIconsDir; it is
\* also path.relative(path.dirname(iconThemePath), thumbnailPath), because
\* the descriptor lies in outputIconsDir itself
ThumbnailName(iconId) == iconId \o <<".","p","n","g">>

\* ------------------------------------------------------------ ordered maps
\* obj[key] = value on a JavaScript object: an existing key keeps its place
\* and takes the new value, a new key is appended
HasKey(obj, key) == \E i \in 1..Len(obj) : obj[i][1] = key
Put(obj, key, value) ==
    IF HasKey(obj, key)
    THEN [i \in 1..Len(obj) |-> IF obj[i][1] = key THEN <<key, value>> ELSE obj[i]]
    ELSE Append(obj, <<key, value>>)
Keys(obj) == {obj[i][1] : i \in 1..Len(obj)}
Values(obj) == {obj[i][2] : i \in 1..Len(obj)}

RECURSIVE PutAll(_, _)
\* { ...obj, ...more }: the entries of more put into obj in their order
PutAll(obj, more) ==
    IF more = <<>> THEN obj
    ELSE PutAll(Put(obj, Head(more)[1], Head(more)[2]), Tail(more))

\* ------------------------------------------------------------ the workspace
\* the source paths the workspace may hold (imageUri.fsPath)
PathAX == <<"/","a","/","x",".","p","n","g">>
PathBX == <<"/","b","/","x",".","p","n","g">>
PathA_X == <<"/","a","_","x",".","p","n","g">>
Paths == {PathAX, PathBX, PathA_X}

Png == <<"p","n","g">>
Svg == <<"s","v","g">>
\* the values the supportedExtensions setting takes
ExtLists == {<<Png, Svg>>, <<Svg>>}

\* the values the iconSize setting takes: the settings store holds what the
\* user wrote, in the documented range or not
IconSizes == {0, 4, DefaultIconSize, 64}
\* the values of the extension's settings
Configs == [supportedExtensions : ExtLists, iconSize : IconSizes]

\* sharp takes a width and height that are positive integers and throws
\* on any other
SharpAccepts(size) == size >= 1

\* array.includes(x)
Includes(arr, x) == \E i \in 1..Len(arr) : arr[i] = x

\* a glob that matches a file name of any extension
GlobMatchAnyExtension(exts, filePath) == extname(filePath) # <<>>

\* the glob `**/*.{${extensions.join(',')}}`: the file name ends in "."
\* followed by one of the extensions as written
GlobMatch(exts, filePath) ==
    LET e == extname(filePath)
    IN  e # <<>> /\ Includes(exts, SubSeq(e, 2, Len(e)))

\* the exclude glob '**/node_modules/**' of line 48: the path has a
\* directory named node_modules above the file
NodeModules == <<"/","n","o","d","e","_","m","o","d","u","l","e","s","/">>
Excluded(filePath) ==
    \E i \in 1..Len(filePath) :
        /\ i + Len(NodeModules) - 1 <= Len(filePath)
        /\ SubSeq(filePath, i, i + Len(NodeModules) - 1) = NodeModules

\* outputIconsDir, line 254: out/icons in the directory the extension is
\* installed in, and the path of the file name in it
OutputIconsDir == <<"/","o">>
ArtifactPath(name) == OutputIconsDir \o <<"/">> \o name

RECURSIVE Orders(_)
\* every order a set can be enumerated in
Orders(S) ==
    IF S = {} THEN {<<>>}
    ELSE UNION {{<<x>> \o s : s \in Orders(S \ {x})} : x \in S}

Min(a, b) == IF a <= b THEN a ELSE b

\* the order of the UTF-16 code units of the characters paths are made of
CodeOrder ==
    <<"-", ".", "/", "0","1","2","3","4","5","6","7","8","9",
      "A","B","C","D","E","F","G","H","I","J","K","L","M",
      "N","O","P","Q","R","S","T","U","V","W","X","Y","Z", "_",
      "a","b","c","d","e","f","g","h","i","j","k","l","m",
      "n","o","p","q","r","s","t","u","v","w","x","y","z">>
Code(ch) == CHOOSE i \in 1..Len(CodeOrder) : CodeOrder[i] = ch

\* p sorts before q
PathLess(p, q) ==
    \/ \E i \in 1..Min(Len(p), Len(q)) :
          /\ \A j \in 1..(i - 1) : p[j] = q[j]
          /\ Code(p[i]) < Code(q[i])
    \/ Len(p) < Len(q) /\ SubSeq(q, 1, Len(p)) = p

RECURSIVE SortedPaths(_)
\* the paths of S in sorted order
SortedPaths(S) ==
    IF S = {} THEN <<>>
    ELSE LET first == CHOOSE p \in S : \A q \in S \ {p} : PathLess(p, q)
         IN  <<first>> \o SortedPaths(S \ {first})

\* --------------------------------------------------------- the descriptor
FileKey == <<"_","f","i","l","e">>
FolderKey == <<"_","f","o","l","d","e","r">>
FolderOpenKey == <<"_","f","o","l","d","e","r","_","o","p","e","n">>
DefaultFileName == <<"d","e","f","a","u","l","t","-","f","i","l","e",".","p","n","g">>
DefaultFolderName == <<"d","e","f","a","u","l","t","-","f","o","l","d","e","r",".","p","n","g">>
DefaultFolderOpenName ==
    <<"d","e","f","a","u","l","t","-","f","o","l","d","e","r","-","o","p","e","n",".","p","n","g">>
\* the three default icons in the order createDefaultIcons makes them
DefaultNames == <<DefaultFileName, DefaultFolderName, DefaultFolderOpenName>>
DotSlash(name) == <<".","/">> \o name

\* the file an iconPath names, relative to the descriptor's directory
Resolve(iconPath) ==
    IF Len(iconPath) >= 2 /\ SubSeq(iconPath, 1, 2) = <<".","/">>
    THEN SubSeq(iconPath, 3, Len(iconPath))
    ELSE iconPath

RECURSIVE DefaultExtensions(_, _)
\* for (const ext of supportedExtensions) if (!fileExtensions[ext]) ...
DefaultExtensions(fileExtensions, exts) ==
    IF exts = <<>> THEN fileExtensions
    ELSE DefaultExtensions(
            IF HasKey(fileExtensions, Head(exts)) THEN fileExtensions
            ELSE Append(fileExtensions, <<Head(exts), FileKey>>),
            Tail(exts))

\* the iconTheme object generateIconTheme builds; JSON.stringify writes its
\* keys in this order, so two themes are byte-identical exactly when these
\* records are equal
IconTheme(iconDefinitions, fileNames, supportedExtensions) ==
    [ iconDefinitions |->
        PutAll(<< <<FileKey, DotSlash(DefaultFileName)>>,
                  <<FolderKey, DotSlash(DefaultFolderName)>>,
                  <<FolderOpenKey, DotSlash(DefaultFolderOpenName)>> >>,
               iconDefinitions),
      file |-> FileKey,
      folder |-> FolderKey,
      folderExpanded |-> FolderOpenKey,
      fileExtensions |-> DefaultExtensions(<<>>, supportedExtensions),
      fileNames |-> fileNames ]

\* the content of a file that holds no theme
NoTheme ==
    [ iconDefinitions |-> <<>>, file |-> <<>>, folder |-> <<>>,
      folderExpanded |-> <<>>, fileExtensions |-> <<>>, fileNames |-> <<>> ]

\* ------------------------------------------------------------------- state
VARIABLES
    ext,              \* the extension's life: "loaded", "activating",
                      \* "themeUpdate", "active", "failed", "deactivated"
    watcherExts,      \* the extensions of fileWatcher's pattern, <<>> before
    config,           \* the settings store: [supportedExtensions, iconSize]
    workspace,        \* each path: "absent", "ok" (an image), "corrupt"
    dirExists,        \* outputIconsDir exists
    iconFiles,        \* the image files in outputIconsDir: [name, src, size]
    descriptor,       \* the file at iconThemePath: [state, content]
    timers,           \* the pending setTimeout timers: [id, left]
    regenerateTimer,  \* the handle scheduleIconRegeneration keeps, 0: undefined
    cycles,           \* the generateIconTheme calls in progress, oldest first
    events,           \* environment events so far
    refreshes,        \* manual refresh commands so far
    sinceLast,        \* ms since the latest trigger, DebounceMs + 1: longer
    bursts,           \* maximal bursts of triggers begun so far
    timerRuns,        \* generateIconTheme calls made by the debounce timer
    cleanWrite,       \* the theme written by the latest undisturbed cycle
    lastEnded,        \* how the generateIconTheme call that ended last ended
    faults,           \* input/output operations that have failed so far
    owed,             \* a source file of a configured extension was added,
                      \* changed or deleted after activation and no call
                      \* began since
    missed,           \* a change of the source files or of the configuration
                      \* reached no handler of the extension
    reported,         \* the artifacts written under the watched workspace
                      \* whose file event the host has yet to deliver
    limits            \* the run's scenario: its bounds on events, refreshes,
                      \* faults, files and timer calls, the icon sizes the
                      \* user configures in it, whether the extension's
                      \* directory lies inside an open workspace folder, and
                      \* whether findFiles returns the files in any order

vars == <<ext, watcherExts, config, workspace, dirExists, iconFiles, descriptor,
          timers, regenerateTimer, cycles, events, refreshes, sinceLast, bursts,
          timerRuns, cleanWrite, lastEnded, faults, owed, missed, reported,
          limits>>

Present == {p \in Paths : workspace[p] # "absent"}
IconNames(files) == {f.name : f \in files}

\* the files workspace.findFiles searches: the files of the workspace, and
\* the image files of outputIconsDir when it lies in a workspace folder
Searched ==
    Present \cup (IF limits.inside THEN {ArtifactPath(n) : n \in IconNames(iconFiles)}
                  ELSE {})

\* what sharp finds at a path: a workspace file as the workspace has it,
\* an artifact as the image sharp wrote
ContentOf(filePath) ==
    IF filePath \in Paths THEN workspace[filePath] ELSE "ok"

\* the orders workspace.findFiles returns the files S in: any order, or in
\* a scenario that fixes the order, the order of their paths
FoundOrders(S) == IF limits.anyOrder THEN Orders(S) ELSE {SortedPaths(S)}

\* the part of the state the handlers of a cycle write
Machine ==
    [ ext |-> ext, watcherExts |-> watcherExts, dirExists |-> dirExists,
      iconFiles |-> iconFiles, descriptor |-> descriptor, cycles |-> cycles,
      cleanWrite |-> cleanWrite, lastEnded |-> lastEnded, faults |-> faults,
      owed |-> owed, reported |-> reported ]

Apply(m) ==
    /\ ext' = m.ext
    /\ watcherExts' = m.watcherExts
    /\ dirExists' = m.dirExists
    /\ iconFiles' = m.iconFiles
    /\ descriptor' = m.descriptor
    /\ cycles' = m.cycles
    /\ cleanWrite' = m.cleanWrite
    /\ lastEnded' = m.lastEnded
    /\ faults' = m.faults
    /\ owed' = m.owed
    /\ reported' = m.reported
    /\ m.faults <= limits.faults

NoClean == [set |-> FALSE, theme |-> NoTheme]
Absent == [state |-> "absent", content |-> NoTheme]

\* ------------------------------------------------------ getSupportedExtensions
getSupportedExtensions == config.supportedExtensions

\* getIconSize(): the setting as the store holds it
getIconSize == config.iconSize

\* ---------------------------------------------------------- generateIconTheme
\* a call of generateIconTheme, suspended in findImageFiles at the await of
\* workspace.findFiles; clean, before and rendered are history of the call
\* that the code does not keep
NewCycle(caller, alone, before) ==
    [ pc |-> "findFiles",
      caller |-> caller,
      patternExts |-> getSupportedExtensions,
      imageFiles |-> <<>>,
      supportedExtensions |-> <<>>,
      i |-> 0,
      iconSize |-> 0,
      iconDefinitions |-> <<>>,
      fileNames |-> <<>>,
      d |-> 0,
      clean |-> alone,
      before |-> before,
      rendered |-> <<>>,
      failed |-> <<>>,
      discoveryFailed |-> FALSE,
      sizes |-> {} ]

\* generateIconTheme() is called: the new call joins the calls in progress
StartCycle(m, caller) ==
    [m EXCEPT !.cycles =
        Append([k \in 1..Len(m.cycles) |-> [m.cycles[k] EXCEPT !.clean = FALSE]],
               NewCycle(caller, m.cycles = <<>>, m.descriptor)),
              !.owed = FALSE]

RemoveAt(s, k) == SubSeq(s, 1, k - 1) \o SubSeq(s, k + 1, Len(s))

\* activate, lines 270-311: the commands and the watchers are registered
RegisterHandlers(m) ==
    [m EXCEPT !.ext = "active", !.watcherExts = getSupportedExtensions]

\* what becomes of the promise of a generateIconTheme call that rejects:
\* no caller catches it. The timer callback of lines 236-238 is an async
\* function whose promise setTimeout drops, the command handler of lines
\* 271-274 hands its rejected promise to the command service, and activate
\* rejects in its turn
Rejection(caller) ==
    CASE caller = "timer" -> "unhandledRejection"
      [] caller = "refresh" -> "commandRejected"
      [] OTHER -> "activateRejected"

\* what the caller tells the user when the call has ended: line 273 after a
\* manual refresh that returned, nothing otherwise
MessageOf(caller, ok) ==
    IF caller = "refresh" /\ ok THEN "Icon Preview: Icons refreshed" ELSE "none"

\* the call cycles[k] returns (ok) or throws because the operation named
\* cause failed; its caller goes on: activate reads autoActivate and awaits
\* activateIconTheme or registers its handlers, and the timer callback and
\* the refresh command end
Finish(m, k, ok, cause, autoActivate) ==
    LET c == m.cycles[k]
        m1 == [m EXCEPT !.cycles = RemoveAt(m.cycles, k),
                        !.lastEnded = [result |-> IF ok THEN "ok" ELSE "failed",
                                       caller |-> c.caller,
                                       before |-> IF ok THEN Absent ELSE c.before,
                                       cause |-> cause,
                                       escaped |-> IF ok THEN "none"
                                                   ELSE Rejection(c.caller),
                                       message |-> MessageOf(c.caller, ok)]]
    IN  IF c.caller = "activate"
        THEN IF ~ok THEN [m1 EXCEPT !.ext = "failed"]
             ELSE IF autoActivate THEN [m1 EXCEPT !.ext = "themeUpdate"]
             ELSE RegisterHandlers(m1)
        ELSE m1

\* createDefaultIcons from its from-th icon on, with the icon size it read
\* at line 168. An icon that fs.existsSync finds is skipped. For a missing
\* one sharp is called: it throws at once on a size it does not accept,
\* which is caught and logged, and createDefaultIcons goes on within the
\* same turn; with a size it accepts the first missing icon is awaited.
\* With none left the call returns
EnterDefaults(m, k, from, autoActivate) ==
    LET missing == {j \in from..3 : DefaultNames[j] \notin IconNames(m.iconFiles)}
    IN  IF missing = {} \/ ~SharpAccepts(m.cycles[k].iconSize)
        THEN Finish(m, k, TRUE, "none", autoActivate)
        ELSE [m EXCEPT !.cycles[k].pc = "defaultIcon",
                       !.cycles[k].d = CHOOSE j \in missing : \A j2 \in missing : j <= j2]

\* fs.writeFileSync(iconThemePath, ...), lines 137-158, up to its open: the
\* file is opened for writing and truncated, or the open throws
BeginWrite(m, k, openOk, autoActivate) ==
    IF openOk
    THEN [m EXCEPT !.cycles[k].pc = "write",
                   !.descriptor = [state |-> "truncated", content |-> NoTheme]]
    ELSE Finish([m EXCEPT !.faults = @ + 1], k, FALSE, "open", autoActivate)

\* lines 116-126 with the icon definition added only for a file name not
\* mapped yet
RenderSuccessOncePerName(c, filePath) ==
    LET iconId == generateIconId(filePath)
    IN  [c EXCEPT !.iconDefinitions =
                      IF HasKey(c.fileNames, basename(filePath)) THEN @
                      ELSE Put(@, iconId, ThumbnailName(iconId)),
                  !.fileNames = Put(@, basename(filePath), iconId),
                  !.rendered = Append(@, filePath)]

\* lines 116-126: the entries a rendered file adds to the two maps
RenderSuccess(c, filePath) ==
    LET iconId == generateIconId(filePath)
    IN  [c EXCEPT !.iconDefinitions = Put(@, iconId, ThumbnailName(iconId)),
                  !.fileNames = Put(@, basename(filePath), iconId),
                  !.rendered = Append(@, filePath)]

\* lines 116-126 with the file name mapped also when the render failed
RenderFailureStillMapped(c, filePath) ==
    [c EXCEPT !.fileNames = Put(@, basename(filePath), generateIconId(filePath)),
              !.failed = Append(@, filePath)]

\* lines 69-72 and 116: generateThumbnail returned false, nothing is added
\* to the maps and the loop goes on
RenderFailure(c, filePath) ==
    [c EXCEPT !.failed = Append(@, filePath)]

RECURSIVE EnterLoop(_, _, _, _, _)
\* the for loop of lines 101-127 from index from on: files whose extension
\* is not supported are skipped; for the next one generateThumbnail reads
\* the icon size, line 58, and calls sharp. On a size sharp does not accept
\* resize throws at once: generateThumbnail returns false and the loop goes
\* on to the next file within the same turn. With a size it accepts the
\* call is suspended until sharp answers. After the last file the theme is
\* written
EnterLoop(m, k, from, openOk, autoActivate) ==
    LET c == m.cycles[k]
        todo == {j \in from..Len(c.imageFiles) :
                    Includes(c.supportedExtensions, ExtOf(c.imageFiles[j]))}
        next == CHOOSE j \in todo : \A j2 \in todo : j <= j2
    IN  IF todo = {}
        THEN BeginWrite(m, k, openOk, autoActivate)
        ELSE IF SharpAccepts(getIconSize)
        THEN [m EXCEPT !.cycles[k].pc = "thumbnail",
                       !.cycles[k].i = next,
                       !.cycles[k].iconSize = getIconSize,
                       !.cycles[k].sizes = @ \cup {getIconSize}]
        ELSE EnterLoop([m EXCEPT !.cycles[k] = RenderFailure(c, c.imageFiles[next])],
                       k, next + 1, openOk, autoActivate)

\* lines 137-155 for a call: the theme it has assembled
ThemeOf(c) == IconTheme(c.iconDefinitions, c.fileNames, c.supportedExtensions)

\* sharp(...).toFile(outputPath) has written the file name, made from src
\* in size x size pixels
WriteIcon(files, name, src, size) ==
    {f \in files : f.name # name} \cup {[name |-> name, src |-> src, size |-> size]}

\* the file name has been written into outputIconsDir: when the directory
\* lies in a workspace folder this is a file event of the workspace, which
\* the host will report to fileWatcher, lines 287-291, if the watcher
\* exists and its glob matches the file
FileWritten(m, name) ==
    IF /\ limits.inside
       /\ m.ext = "active"
       /\ GlobMatch(m.watcherExts, ArtifactPath(name))
    THEN [m EXCEPT !.reported = @ \cup {name}]
    ELSE m

\* ------------------------------------------------------------- the event loop
\* a synchronous fs.writeFileSync is under way: no other code of the
\* extension runs until it returns
Blocked == \E k \in 1..Len(cycles) : cycles[k].pc = "write"
\* a timer is due: the event loop runs it before any later callback
Due == \E t \in timers : t.left = 0
Ready == ~Blocked /\ ~Due

EnvUnchanged == UNCHANGED <<config, workspace, events, missed, limits>>
TimerUnchanged == UNCHANGED <<timers, regenerateTimer, sinceLast, bursts, timerRuns>>

\* ---------------------------------------------------- scheduleIconRegeneration
\* a clearTimeout that clears nothing
ClearTimeoutNoop(ts, handle) == ts

\* clearTimeout(regenerateTimer), lines 232-234 and 318-320: the timer the
\* handle names is pending no more; a handle of a timer that has run, or
\* the undefined handle 0, names none
ClearTimeout(ts, handle) == {t \in ts : t.id # handle}

\* scheduleIconRegeneration without its clearTimeout: the earlier timer
\* stays pending beside the new one
RescheduleNoClear(ts, handle, id) ==
    ts \cup {[id |-> id, left |-> DebounceMs]}

\* lines 232-238 on the timers: the timer the handle names is cleared and a
\* new one is set, DebounceMs from now
Reschedule(ts, handle, id) ==
    ClearTimeout(ts, handle) \cup {[id |-> id, left |-> DebounceMs]}

\* a registered handler calls scheduleIconRegeneration()
Schedule ==
    /\ timers' = Reschedule(timers, regenerateTimer, regenerateTimer + 1)
    /\ regenerateTimer' = regenerateTimer + 1
    /\ sinceLast' = 0
    /\ bursts' = IF sinceLast >= DebounceMs THEN bursts + 1 ELSE bursts
    /\ timerRuns' = timerRuns

\* activate(context), lines 252-263: the paths are set, the output directory
\* is made, and the first generateIconTheme call is awaited
Activate ==
    /\ ext = "loaded"
    /\ \E mkdirOk \in BOOLEAN :
          IF ~dirExists /\ ~mkdirOk
          THEN Apply([Machine EXCEPT !.ext = "failed", !.faults = @ + 1])
          ELSE Apply(StartCycle([Machine EXCEPT !.ext = "activating",
                                                !.dirExists = TRUE], "activate"))
    /\ EnvUnchanged /\ TimerUnchanged /\ UNCHANGED refreshes

\* findImageFiles with the files found returned also when findFiles rejected
findImageFilesKeepsFound(rejected, found) == found

\* lines 47-51: what findImageFiles returns when workspace.findFiles has
\* resolved with found, or has rejected
findImageFiles(rejected, found) == IF rejected THEN <<>> ELSE found

\* workspace.findFiles resolves with the matching files in some order, or
\* rejects and findImageFiles returns []; generateIconTheme goes on from
\* line 89 to its first await or its end
FindFilesReturn(k) ==
    /\ Ready
    /\ cycles[k].pc = "findFiles"
    /\ \E found \in FoundOrders({p \in Searched : /\ GlobMatch(cycles[k].patternExts, p)
                                                  /\ ~Excluded(p)}) :
       \E failed, mkdirOk, openOk, autoActivate \in BOOLEAN :
          LET m1 == [Machine EXCEPT
                        !.cycles[k].imageFiles = findImageFiles(failed, found),
                        !.cycles[k].discoveryFailed = failed,
                        !.cycles[k].supportedExtensions = getSupportedExtensions,
                        !.cycles[k].clean = @ /\ ~failed,
                        !.faults = IF failed THEN @ + 1 ELSE @]
          IN  IF ~dirExists /\ ~mkdirOk
              THEN Apply(Finish([m1 EXCEPT !.faults = @ + 1], k, FALSE, "mkdir",
                                autoActivate))
              ELSE Apply(EnterLoop([m1 EXCEPT !.dirExists = TRUE], k, 1,
                                   openOk, autoActivate))
    /\ EnvUnchanged /\ TimerUnchanged /\ UNCHANGED refreshes

\* sharp answers and generateThumbnail resolves: true when sharp could read
\* the image and has written the thumbnail, false otherwise; the loop goes
\* on
ThumbnailReturn(k) ==
    /\ Ready
    /\ cycles[k].pc = "thumbnail"
    /\ \E openOk, autoActivate \in BOOLEAN :
          LET c == cycles[k]
              filePath == c.imageFiles[c.i]
              name == ThumbnailName(generateIconId(filePath))
              m1 == IF ContentOf(filePath) = "ok"
                    THEN FileWritten(
                            [Machine EXCEPT
                                !.iconFiles = WriteIcon(@, name, filePath, c.iconSize),
                                !.cycles[k] = RenderSuccess(c, filePath)],
                            name)
                    ELSE [Machine EXCEPT !.cycles[k] = RenderFailure(c, filePath)]
          IN  Apply(EnterLoop(m1, k, c.i + 1, openOk, autoActivate))
    /\ EnvUnchanged /\ TimerUnchanged /\ UNCHANGED refreshes

\* fs.writeFileSync writes the JSON text into the truncated file, or throws
\* with the file left truncated; then createDefaultIcons is called
WriteData(k) ==
    /\ cycles[k].pc = "write"
    /\ \E writeOk, autoActivate \in BOOLEAN :
          LET c == cycles[k]
              theme == ThemeOf(c)
          IN  IF writeOk
              THEN Apply(EnterDefaults(
                      [Machine EXCEPT
                          !.cycles[k].iconSize = getIconSize,
                          !.descriptor = [state |-> "complete", content |-> theme],
                          !.cleanWrite = IF c.clean THEN [set |-> TRUE, theme |-> theme]
                                         ELSE NoClean],
                      k, 1, autoActivate))
              ELSE Apply(Finish([Machine EXCEPT !.cleanWrite = NoClean,
                                                !.faults = @ + 1],
                                k, FALSE, "write", autoActivate))
    /\ EnvUnchanged /\ TimerUnchanged /\ UNCHANGED refreshes

\* the sharp call of a default icon resolves, or it rejects (caught and
\* logged); createDefaultIcons goes on with the next icon
DefaultIconReturn(k) ==
    /\ Ready
    /\ cycles[k].pc = "defaultIcon"
    /\ \E made, autoActivate \in BOOLEAN :
          LET c == cycles[k]
              m1 == IF made
                    THEN FileWritten(
                            [Machine EXCEPT
                                !.iconFiles = WriteIcon(@, DefaultNames[c.d], <<>>,
                                                        c.iconSize)],
                            DefaultNames[c.d])
                    ELSE [Machine EXCEPT !.faults = @ + 1]
          IN  Apply(EnterDefaults(m1, k, c.d + 1, autoActivate))
    /\ EnvUnchanged /\ TimerUnchanged /\ UNCHANGED refreshes

\* activateIconTheme's config.update resolves or rejects, lines 266-268;
\* activate goes on to register its handlers
ThemeUpdateReturn ==
    /\ Ready
    /\ ext = "themeUpdate"
    /\ \E ok \in BOOLEAN :
          IF ok THEN Apply(RegisterHandlers(Machine))
          ELSE Apply([Machine EXCEPT !.ext = "failed", !.faults = @ + 1])
    /\ EnvUnchanged /\ TimerUnchanged /\ UNCHANGED refreshes

\* ------------------------------------------------- timer and refresh command
\* the callback of setTimeout runs: await generateIconTheme()
TimerFire ==
    /\ ~Blocked
    /\ timerRuns < limits.timerCalls
    /\ \E t \in timers :
          /\ t.left = 0
          /\ timers' = timers \ {t}
    /\ timerRuns' = timerRuns + 1
    /\ Apply(StartCycle(Machine, "timer"))
    /\ EnvUnchanged /\ UNCHANGED <<regenerateTimer, sinceLast, bursts, refreshes>>

\* the command tlcsdm.iconpreview.refresh, lines 271-274
Refresh ==
    /\ Ready
    /\ ext = "active"
    /\ refreshes < limits.refreshes
    /\ refreshes' = refreshes + 1
    /\ Apply(StartCycle(Machine, "refresh"))
    /\ EnvUnchanged /\ TimerUnchanged

\* deactivate(), lines 317-325, which the host calls for an extension it
\* has activated: the pending timer is cleared and the file watcher is
\* disposed; the host then disposes context.subscriptions, the two
\* commands and the listeners of lines 296-309. Calls in progress go on
Deactivate ==
    /\ ~Blocked
    /\ ext = "active"
    /\ ext' = "deactivated"
    /\ watcherExts' = <<>>
    /\ timers' = ClearTimeout(timers, regenerateTimer)
    /\ UNCHANGED <<config, workspace, dirExists, iconFiles, descriptor,
                   regenerateTimer, cycles, events, refreshes, sinceLast, bursts,
                   timerRuns, cleanWrite, lastEnded, faults, owed, missed, reported,
                   limits>>

\* --------------------------------------------------------- the environment
\* time passes, up to the next timer's expiry
Advance ==
    /\ Ready
    /\ LET dt == IF timers = {} THEN TimeStep
                 ELSE Min(TimeStep, CHOOSE l \in {t.left : t \in timers} :
                                        \A t \in timers : l <= t.left)
       IN  /\ timers' = {[id |-> t.id, left |-> t.left - dt] : t \in timers}
           /\ sinceLast' = Min(sinceLast + dt, DebounceMs + 1)
    /\ UNCHANGED <<ext, watcherExts, config, workspace, dirExists, iconFiles,
                   descriptor, regenerateTimer, cycles, events, refreshes, bursts,
                   timerRuns, cleanWrite, lastEnded, faults, owed, missed, reported,
                   limits>>

\* the workspace or the configuration changes under the calls in progress
Disturbed ==
    /\ cycles' = [k \in 1..Len(cycles) |-> [cycles[k] EXCEPT !.clean = FALSE]]
    /\ cleanWrite' = NoClean
    /\ events' = events + 1
    /\ UNCHANGED <<ext, watcherExts, dirExists, iconFiles, descriptor, refreshes,
                   lastEnded, faults, reported, limits>>

\* an event a registered handler hears calls scheduleIconRegeneration
Notify(heard) ==
    IF ext = "active" /\ heard
    THEN Schedule /\ UNCHANGED missed
    ELSE TimerUnchanged /\ missed' = TRUE

\* a file event on p after activation, p of an extension that is in
\* supportedExtensions now, calls for a regeneration
Owes(p) ==
    owed' = (owed \/ (ext = "active" /\ Includes(getSupportedExtensions, ExtOf(p))))

\* a file appears: fileWatcher.onDidCreate, line 289
FileCreated(p, content) ==
    /\ Ready
    /\ events < limits.events
    /\ workspace[p] = "absent"
    /\ Cardinality(Present) < limits.files
    /\ workspace' = [workspace EXCEPT ![p] = content]
    /\ Notify(GlobMatch(watcherExts, p))
    /\ Owes(p)
    /\ Disturbed /\ UNCHANGED config

\* a file is removed: fileWatcher.onDidDelete, line 290
FileDeleted(p) ==
    /\ Ready
    /\ events < limits.events
    /\ workspace[p] # "absent"
    /\ workspace' = [workspace EXCEPT ![p] = "absent"]
    /\ Notify(GlobMatch(watcherExts, p))
    /\ Owes(p)
    /\ Disturbed /\ UNCHANGED config

\* a file's content changes: fileWatcher.onDidChange, line 291
FileChanged(p, content) ==
    /\ Ready
    /\ events < limits.events
    /\ workspace[p] # "absent"
    /\ workspace' = [workspace EXCEPT ![p] = content]
    /\ Notify(GlobMatch(watcherExts, p))
    /\ Owes(p)
    /\ Disturbed /\ UNCHANGED config

\* the settings of the extension change: onDidChangeConfiguration with
\* affectsConfiguration('tlcsdm.iconpreview'), lines 297-301
ConfigChanged(new) ==
    /\ Ready
    /\ events < limits.events
    /\ new # config
    /\ new.iconSize \in limits.sizes
    /\ config' = new
    /\ Notify(TRUE)
    /\ Disturbed /\ UNCHANGED <<workspace, owed>>

\* a workspace folder without image files is added or removed:
\* onDidChangeWorkspaceFolders, lines 306-308
FoldersChanged ==
    /\ Ready
    /\ ext = "active"
    /\ events < limits.events
    /\ Schedule
    /\ events' = events + 1
    /\ UNCHANGED <<ext, watcherExts, config, workspace, dirExists, iconFiles,
                   descriptor, cycles, refreshes, cleanWrite, lastEnded, faults,
                   owed, missed, reported, limits>>

\* the host delivers the file event of an artifact written under the
\* watched workspace: the callback of lines 289-291 calls
\* scheduleIconRegeneration(), unless fileWatcher has been disposed since
ArtifactReported(name) ==
    /\ Ready
    /\ name \in reported
    /\ Apply([Machine EXCEPT !.reported = @ \ {name}])
    /\ IF ext = "active" THEN Schedule ELSE TimerUnchanged
    /\ EnvUnchanged /\ UNCHANGED refreshes

\* ---------------------------------------------------------- specification
Workspaces ==
    {w \in [Paths -> {"absent", "ok", "corrupt"}] :
        Cardinality({p \in Paths : w[p] # "absent"}) <= MaxFiles}

\* the state when the extension's module has been loaded
Loaded ==
    /\ ext = "loaded"
    /\ watcherExts = <<>>
    /\ config \in Configs
    /\ dirExists \in BOOLEAN
    /\ iconFiles = {}
    /\ descriptor = Absent
    /\ timers = {}
    /\ regenerateTimer = 0
    /\ cycles = <<>>
    /\ events = 0
    /\ refreshes = 0
    /\ sinceLast = DebounceMs + 1
    /\ bursts = 0
    /\ timerRuns = 0
    /\ cleanWrite = NoClean
    /\ lastEnded = [result |-> "none", caller |-> "none", before |-> Absent,
                    cause |-> "none", escaped |-> "none", message |-> "none"]
    /\ faults = 0
    /\ owed = FALSE
    /\ missed = FALSE
    /\ reported = {}

\* any workspace, with a fault, a manual refresh and an event
Init ==
    /\ Loaded
    /\ workspace \in Workspaces
    /\ limits = [events |-> MaxEvents, refreshes |-> MaxRefresh,
                 faults |-> MaxFaults, files |-> MaxFiles,
                 timerCalls |-> MaxEvents,
                 sizes |-> {DefaultIconSize}, inside |-> FALSE,
                 anyOrder |-> TRUE]
    /\ config.iconSize \in limits.sizes

\* the debounce scenario: a workspace that starts empty, no fault and no
\* manual refresh, and a longer run of events
InitDebounce ==
    /\ Loaded
    /\ workspace = [p \in Paths |-> "absent"]
    /\ dirExists
    /\ limits = [events |-> MaxBurstEvents, refreshes |-> 0,
                 faults |-> 0, files |-> MaxBurstFiles,
                 timerCalls |-> MaxBurstEvents,
                 sizes |-> {DefaultIconSize}, inside |-> FALSE,
                 anyOrder |-> TRUE]
    /\ config.iconSize \in limits.sizes

Next ==
    \/ Activate
    \/ \E k \in 1..Len(cycles) : FindFilesReturn(k)
    \/ \E k \in 1..Len(cycles) : ThumbnailReturn(k)
    \/ \E k \in 1..Len(cycles) : WriteData(k)
    \/ \E k \in 1..Len(cycles) : DefaultIconReturn(k)
    \/ ThemeUpdateReturn
    \/ TimerFire
    \/ Refresh
    \/ Advance
    \/ \E p \in Paths, content \in {"ok", "corrupt"} : FileCreated(p, content)
    \/ \E p \in Paths : FileDeleted(p)
    \/ \E p \in Paths, content \in {"ok", "corrupt"} : FileChanged(p, content)
    \/ \E new \in Configs : ConfigChanged(new)
    \/ FoldersChanged
    \/ Deactivate

Spec == Init /\ [][Next]_vars

NextDebounce ==
    \/ Activate
    \/ \E k \in 1..Len(cycles) : FindFilesReturn(k)
    \/ \E k \in 1..Len(cycles) : ThumbnailReturn(k)
    \/ \E k \in 1..Len(cycles) : WriteData(k)
    \/ \E k \in 1..Len(cycles) : DefaultIconReturn(k)
    \/ ThemeUpdateReturn
    \/ TimerFire
    \/ Advance
    \/ \E p \in Paths, content \in {"ok", "corrupt"} : FileCreated(p, content)
    \/ \E p \in Paths : FileDeleted(p)
    \/ \E p \in Paths, content \in {"ok", "corrupt"} : FileChanged(p, content)
    \/ \E new \in Configs : ConfigChanged(new)
    \/ FoldersChanged

SpecDebounce == InitDebounce /\ [][NextDebounce]_vars

\* the debounce scenario with the deactivation of the extension
NextShutdown ==
    \/ NextDebounce
    \/ Deactivate

SpecShutdown == InitDebounce /\ [][NextShutdown]_vars

\* the scenario of cycles alone: any workspace, faults and manual
\* refreshes, and no event
InitCycles ==
    /\ Loaded
    /\ workspace \in Workspaces
    /\ limits = [events |-> 0, refreshes |-> MaxRefresh,
                 faults |-> MaxFaults, files |-> MaxFiles,
                 timerCalls |-> MaxEvents,
                 sizes |-> {DefaultIconSize}, inside |-> FALSE,
                 anyOrder |-> TRUE]
    /\ config.iconSize \in limits.sizes

NextCycles ==
    \/ Activate
    \/ \E k \in 1..Len(cycles) : FindFilesReturn(k)
    \/ \E k \in 1..Len(cycles) : ThumbnailReturn(k)
    \/ \E k \in 1..Len(cycles) : WriteData(k)
    \/ \E k \in 1..Len(cycles) : DefaultIconReturn(k)
    \/ ThemeUpdateReturn
    \/ Refresh

SpecCycles == InitCycles /\ [][NextCycles]_vars

\* the scenario of the icon size: any workspace, any value of the iconSize
\* setting, no fault and no manual refresh
InitSizes ==
    /\ Loaded
    /\ workspace \in Workspaces
    /\ limits = [events |-> MaxEvents, refreshes |-> 0,
                 faults |-> 0, files |-> MaxFiles,
                 timerCalls |-> MaxEvents,
                 sizes |-> IconSizes, inside |-> FALSE,
                 anyOrder |-> TRUE]

SpecSizes == InitSizes /\ [][NextDebounce]_vars

\* the scenario of an extension installed inside an open workspace folder
\* (the extension's own development workspace): a workspace that holds no
\* image beside the artifacts, a manual refresh, no fault and no event of
\* the user's; findFiles returns the files in order of path, and the
\* debounce timer the artifacts' events set makes MaxInsideTimerCalls calls
InitInside ==
    /\ Loaded
    /\ workspace = [p \in Paths |-> "absent"]
    /\ limits = [events |-> 0, refreshes |-> MaxRefresh,
                 faults |-> 0, files |-> 0,
                 timerCalls |-> MaxInsideTimerCalls,
                 sizes |-> {DefaultIconSize}, inside |-> TRUE,
                 anyOrder |-> FALSE]
    /\ config.iconSize \in limits.sizes

\* the calls, the manual refresh, the events of the artifacts and the
\* debounce timer they set
NextInside ==
    \/ NextCycles
    \/ \E name \in reported : ArtifactReported(name)
    \/ Advance
    \/ TimerFire

SpecInside == InitInside /\ [][NextInside]_vars

\* ------------------------------------------------------------------ claims

\* C1: at no time are two generateIconTheme calls in progress at once (a
\* call suspended at an await is in progress).
C1_SingleFlight == Len(cycles) <= 1

\* C2: a cycle owed to triggers that arrived while a cycle was in flight
\* starts only after the cycle in flight has completed: the debounce timer
\* never calls generateIconTheme while a call is in progress.
C2_FollowUpAfterCompletion ==
    [][timerRuns' # timerRuns => cycles = <<>>]_vars

\* C3: trailing-edge debounce. While the latest trigger is less than
\* DebounceMs old the timer has made one call for each earlier burst and
\* none for the current one, and it is set to expire DebounceMs after that
\* trigger; once the trigger is more than DebounceMs old the timer has made
\* exactly one call for each burst and no timer is pending; at DebounceMs
\* exactly the call is made or due. A burst is a maximal run of triggers
\* each less than DebounceMs after the one before.
C3_TrailingDebounce ==
    /\ sinceLast < DebounceMs =>
          /\ timerRuns = bursts - 1
          /\ {t.left : t \in timers} = {DebounceMs - sinceLast}
    /\ sinceLast = DebounceMs =>
          \/ timerRuns = bursts /\ timers = {}
          \/ timerRuns = bursts - 1 /\ {t.left : t \in timers} = {0}
    /\ sinceLast > DebounceMs =>
          /\ timerRuns = bursts
          /\ timers = {}

\* a burst of two triggers has gone quiet and been answered by one call
C3_Witness ==
    /\ regenerateTimer = 2
    /\ bursts = 1
    /\ timerRuns = 1
    /\ sinceLast > DebounceMs

\* C4: in every descriptor generateIconTheme writes, and in the maps of
\* every call in progress, each identifier that is a value of fileNames is
\* a key of iconDefinitions.
C4_FileNamesDefined ==
    /\ descriptor.state = "complete" =>
          Values(descriptor.content.fileNames) \subseteq
              Keys(descriptor.content.iconDefinitions)
    /\ \A k \in 1..Len(cycles) :
          Values(cycles[k].fileNames) \subseteq Keys(cycles[k].iconDefinitions)

\* a descriptor has been written by a cycle that rendered two files of one
\* base name: one fileNames entry, two icon definitions beside the defaults
C4_Witness ==
    /\ descriptor.state = "complete"
    /\ Len(descriptor.content.fileNames) = 1
    /\ Len(descriptor.content.iconDefinitions) = 5

\* every iconPath of a theme names a file among files
ArtifactsExist(theme, files) ==
    \A i \in 1..Len(theme.iconDefinitions) :
        Resolve(theme.iconDefinitions[i][2]) \in IconNames(files)

\* C5: at the moment a descriptor is written, every entry of its
\* iconDefinitions, the default entries included, names an artifact file
\* that exists.
C5_ArtifactsExistAtWrite ==
    [][(descriptor' # descriptor /\ descriptor'.state = "complete")
          => ArtifactsExist(descriptor'.content, iconFiles')]_vars

\* C6: two cycles that run one after the other, with no other cycle in
\* progress, no failed discovery and no change of the workspace or the
\* configuration from the start of the first to the end of the second,
\* write the same descriptor content.
C6_Idempotent ==
    [][(cleanWrite.set /\ cleanWrite'.set) => cleanWrite'.theme = cleanWrite.theme]_vars

RECURSIVE AssembleInOrder(_, _)
\* the maps the loop builds when it renders the paths in the order given
AssembleInOrder(c, paths) ==
    IF paths = <<>> THEN c
    ELSE AssembleInOrder(RenderSuccess(c, Head(paths)), Tail(paths))

\* the theme of the files a call rendered, processed in order of source path
SortedThemeOf(c) ==
    ThemeOf(AssembleInOrder(
        [c EXCEPT !.iconDefinitions = <<>>, !.fileNames = <<>>, !.rendered = <<>>],
        SortedPaths({c.rendered[i] : i \in 1..Len(c.rendered)})))

Assembled(c) == c.pc \in {"write", "defaultIcon"}

\* C7: the theme a call assembles is the one its rendered files give when
\* processed in order of source path, whatever order discovery returned
\* them in; so a base name shared by two rendered files maps to the
\* identifier of the path that sorts last.
C7_OrderIndependent ==
    \A k \in 1..Len(cycles) :
        Assembled(cycles[k]) => ThemeOf(cycles[k]) = SortedThemeOf(cycles[k])

\* C8: two distinct source paths a call has rendered never have the same
\* identifier.
C8_IconIdInjective ==
    \A k \in 1..Len(cycles) :
        \A i, j \in 1..Len(cycles[k].rendered) :
            cycles[k].rendered[i] # cycles[k].rendered[j]
                => generateIconId(cycles[k].rendered[i]) # generateIconId(cycles[k].rendered[j])

\* C9: when a generateIconTheme call fails, the descriptor file holds
\* exactly what it held when the call started.
C9_FailedCycleKeepsDescriptor ==
    [][(lastEnded' # lastEnded /\ lastEnded'.result = "failed")
          => descriptor' = lastEnded'.before]_vars

\* C10: the descriptor file is never empty, truncated or partly written.
C10_NeverTornWrite == descriptor.state # "truncated"

\* the elements of a sequence
Range(s) == {s[i] : i \in 1..Len(s)}

\* the files among the first n a call discovered that pass the filter of
\* line 106
Filtered(c, n) ==
    {c.imageFiles[j] : j \in {j \in 1..n :
        Includes(c.supportedExtensions, ExtOf(c.imageFiles[j]))}}

\* the files a call has tried to render
Attempted(c) == Range(c.rendered) \cup Range(c.failed)

\* the per-file entries of theme are those of the files given: an icon
\* definition for each of them and no other beside the defaults, and a
\* fileNames entry for the base name of each, naming one of them
EntriesOf(theme, files) ==
    /\ {e \in Range(theme.iconDefinitions) :
            e[1] \notin {FileKey, FolderKey, FolderOpenKey}}
          = {<<generateIconId(p), ThumbnailName(generateIconId(p))>> : p \in files}
    /\ Keys(theme.fileNames) = {basename(p) : p \in files}
    /\ Range(theme.fileNames) \subseteq
          {<<basename(p), generateIconId(p)>> : p \in files}

\* the per-file entries of theme are those of the files call c rendered
EntriesOfRendered(theme, c) == EntriesOf(theme, Range(c.rendered))

\* C11: a render failure does not abort the call. The loop goes on to
\* every other discovered file of a supported extension, a call ends failed
\* only when the mkdir, the open or the write of the descriptor failed, and
\* the descriptor a call writes has its per-file entries from exactly the
\* files whose render succeeded, none from a file whose render failed.
C11_RenderFailureSkipsFile ==
    [][/\ \A k \in 1..Len(cycles) :
            /\ cycles[k].pc = "thumbnail" =>
                  Attempted(cycles[k]) = Filtered(cycles[k], cycles[k].i - 1)
            /\ Assembled(cycles[k]) =>
                  Attempted(cycles[k]) = Filtered(cycles[k], Len(cycles[k].imageFiles))
            /\ Range(cycles[k].rendered) \cap Range(cycles[k].failed) = {}
            /\ (cycles[k].pc = "write" /\ descriptor'.state = "complete") =>
                  EntriesOfRendered(descriptor'.content, cycles[k])
       /\ (lastEnded' # lastEnded /\ lastEnded'.result = "failed") =>
                  lastEnded'.cause \in {"mkdir", "open", "write"}]_vars

\* a call has written a descriptor after one render failed and one
\* succeeded: the descriptor maps the one file
C11_Witness ==
    /\ descriptor.state = "complete"
    /\ Len(descriptor.content.fileNames) = 1
    /\ \E k \in 1..Len(cycles) :
          /\ cycles[k].pc = "defaultIcon"
          /\ Len(cycles[k].failed) = 1
          /\ Len(cycles[k].rendered) = 1

\* C12: when workspace.findFiles rejects, findImageFiles returns the empty
\* list and the call goes straight on to the write of the descriptor: it
\* renders nothing, and the descriptor it writes holds the default entries
\* and no per-file entry.
C12_DiscoveryErrorIsEmpty ==
    [][\A k \in 1..Len(cycles) :
          cycles[k].discoveryFailed =>
              /\ Assembled(cycles[k])
              /\ cycles[k].imageFiles = <<>>
              /\ Attempted(cycles[k]) = {}
              /\ (cycles[k].pc = "write" /\ descriptor'.state = "complete") =>
                    descriptor'.content =
                        IconTheme(<<>>, <<>>, cycles[k].supportedExtensions)]_vars

\* a call whose discovery failed, in a workspace that holds an image of a
\* supported extension, has written a descriptor without per-file entry
C12_Witness ==
    /\ descriptor.state = "complete"
    /\ descriptor.content.fileNames = <<>>
    /\ Len(descriptor.content.iconDefinitions) = 3
    /\ \E k \in 1..Len(cycles) :
          /\ cycles[k].pc = "defaultIcon"
          /\ cycles[k].discoveryFailed
          /\ \E p \in Present :
                /\ workspace[p] = "ok"
                /\ GlobMatch(cycles[k].patternExts, p)
                /\ Includes(cycles[k].supportedExtensions, ExtOf(p))

\* theme has no entry for file p: no fileNames entry for its base name and
\* no icon definition under its identifier
NoEntryFor(theme, p) ==
    /\ basename(p) \notin Keys(theme.fileNames)
    /\ generateIconId(p) \notin Keys(theme.iconDefinitions)

\* C13: a call that starts when an extension is not in supportedExtensions
\* renders no file of that extension, and the descriptor it writes has no
\* fileNames entry and no icon definition for such a file, also when the
\* file exists and an earlier call mapped it.
C13_RemovedExtensionUnmapped ==
    [][\A k \in 1..Len(cycles) : \A p \in Paths :
          ~Includes(cycles[k].patternExts, ExtOf(p)) =>
              /\ p \notin Attempted(cycles[k])
              /\ (cycles[k].pc = "write" /\ descriptor'.state = "complete") =>
                    NoEntryFor(descriptor'.content, p)]_vars

\* png has been removed from supportedExtensions, and the call the timer
\* made after the change has written a descriptor that no longer maps the
\* png file an earlier call rendered
C13_Witness ==
    /\ config.supportedExtensions = <<Svg>>
    /\ cycles = <<>>
    /\ timerRuns = 2
    /\ lastEnded.caller = "timer"
    /\ lastEnded.result = "ok"
    /\ descriptor.state = "complete"
    /\ \E p \in Present :
          /\ workspace[p] = "ok"
          /\ ExtOf(p) = Png
          /\ ThumbnailName(generateIconId(p)) \in IconNames(iconFiles)
          /\ NoEntryFor(descriptor.content, p)

\* C14: auto-refresh. Whenever, after activation, a file of an extension
\* that is in supportedExtensions at that time is added, changed or
\* deleted, a generateIconTheme call is eventually started, also for an
\* extension that was added to supportedExtensions after activation: while
\* no call has started since the event, a timer is pending that will start
\* one, so that the extension is never left idle (no call in progress, no
\* timer pending) with the call still to be started.
C14_AutoRefresh == (owed /\ cycles = <<>>) => timers # {}

\* C15: the icon size handed to sharp, for a thumbnail or for a default
\* icon, is always in MinIconSize..MaxIconSize: a configured value below
\* the range is used as MinIconSize and one above it as MaxIconSize.
C15_IconSizeClamped ==
    \A k \in 1..Len(cycles) :
        cycles[k].pc \in {"thumbnail", "defaultIcon"} =>
            cycles[k].iconSize \in MinIconSize..MaxIconSize

\* filePath lies under the directory dir
IsUnder(dir, filePath) ==
    /\ Len(filePath) > Len(dir)
    /\ SubSeq(filePath, 1, Len(dir) + 1) = dir \o <<"/">>

\* C16: no call discovers a file under outputIconsDir or under a
\* node_modules directory, so no thumbnail and no default icon a call wrote
\* is a source image of this or a later call, also when outputIconsDir lies
\* inside an open workspace folder.
C16_ArtifactsNotDiscovered ==
    \A k \in 1..Len(cycles) : \A j \in 1..Len(cycles[k].imageFiles) :
        /\ ~IsUnder(OutputIconsDir, cycles[k].imageFiles[j])
        /\ ~Excluded(cycles[k].imageFiles[j])

\* C17: a generateIconTheme call made by the debounce timer or by the
\* refresh command that fails on the output directory or the descriptor
\* file ends as an error its caller handles, never as a rejected promise
\* nobody handles; after a timer's call the user is told nothing, and after
\* a manual refresh the user is shown a failure notification and not the
\* 'Icons refreshed' message.
C17_PersistenceFailureHandled ==
    (lastEnded.result = "failed" /\ lastEnded.caller \in {"timer", "refresh"}) =>
        /\ lastEnded.escaped = "none"
        /\ lastEnded.caller = "timer" => lastEnded.message = "none"
        /\ lastEnded.caller = "refresh" =>
              lastEnded.message \notin {"none", "Icon Preview: Icons refreshed"}

\* the extension is active and has nothing left to do: no call in
\* progress, no timer pending and no file event to deliver
Idle == ext = "active" /\ cycles = <<>> /\ timers = {} /\ reported = {}

\* the workspace files a call made now would render
Renderable ==
    {p \in Present : /\ GlobMatch(getSupportedExtensions, p)
                     /\ Includes(getSupportedExtensions, ExtOf(p))
                     /\ SharpAccepts(getIconSize)
                     /\ workspace[p] = "ok"}

\* the descriptor file holds the theme of the workspace and the
\* configuration as they are now, whatever the order of its entries
Fresh ==
    /\ descriptor.state = "complete"
    /\ EntriesOf(descriptor.content, Renderable)
    /\ descriptor.content.fileExtensions = DefaultExtensions(<<>>, getSupportedExtensions)

\* C18: eventual freshness. When every change of the workspace and of the
\* configuration has reached a handler, no operation has failed, every
\* call that was started has ended and no timer is pending, the descriptor
\* file holds the theme of the current workspace and configuration: a call
\* that discovered an older file set has not overwritten the descriptor of
\* a call that discovered a newer one.
C18_EventuallyFresh == (Idle /\ ~missed /\ faults = 0) => Fresh

\* C19: a call works on one snapshot of the configuration: the extensions
\* it filters the discovered files by are those it built the discovery
\* pattern from, and every thumbnail of the call is rendered in one icon
\* size, also when the configuration changes while the call is suspended.
C19_ConfigSnapshot ==
    \A k \in 1..Len(cycles) :
        /\ cycles[k].pc # "findFiles" =>
              cycles[k].supportedExtensions = cycles[k].patternExts
        /\ Cardinality(cycles[k].sizes) <= 1

\* C20: once deactivate() has returned the debounce layer starts no call:
\* no timer is pending, so the timer that was pending at deactivation never
\* runs, and no generateIconTheme call begins, so the descriptor is written
\* only by calls that were in progress at deactivation.
C20_NoCycleAfterDeactivate ==
    [][/\ ext' = "deactivated" => timers' = {}
       /\ ext = "deactivated" =>
             /\ ext' = "deactivated"
             /\ timerRuns' = timerRuns
             /\ Len(cycles') <= Len(cycles)]_vars

\* the extension was deactivated while the timer of a burst of triggers
\* was pending: more than DebounceMs after the burst the timer has not run
C20_Witness ==
    /\ ext = "deactivated"
    /\ bursts = 1
    /\ timerRuns = 0
    /\ timers = {}
    /\ sinceLast > DebounceMs

====
